---- MODULE Spec2Model ----
(***************************************************************************)
(* Manifest-driven slide synthesis of PPT_Generator:                       *)
(*   extract_raw_template_data -> generate_template_manifest ->            *)
(*   structure_text_to_slides -> generate_presentation_with_manifest.      *)
(* Python strings whose characters matter (title, content, rendered text)  *)
(* are sequences of one-character strings; names and enum-like values are  *)
(* plain strings.  Python's None is the index 0 / the value NoneValue.     *)
(***************************************************************************)
EXTENDS Integers, Sequences, FiniteSets, TLC

VARIABLES
    pc,               \* position of the build in app.generate_presentation
    tpl,              \* the uploaded template package (document model)
    raw,              \* RawTemplateData returned by the extractor
    attempt,          \* RetryableOperation.attempt of the manifest call
    assisted,         \* last parsed result of the assisted normalization
    manifest,         \* value returned by generate_template_manifest
    slide_structure,  \* ordered ContentBlock list
    deck,             \* slides added to prs.slides, in order
    content_attempt,  \* RetryableOperation.attempt of the content call
    raised,           \* the exception that reached the request handler
    files,            \* the upload folder: path -> content written last
    reqs,             \* the requests being served by the generation endpoints
    op,               \* a RetryableOperation executing a function
    cb,               \* a CircuitBreaker and the calls of the function it wraps
    clock             \* int(time.time())

\* the state of one build
buildVars == <<pc, tpl, raw, attempt, assisted, manifest, slide_structure, deck,
               content_attempt, raised>>

\* the state shared by the request handlers of the process
uploadVars == <<files, reqs, clock>>

\* the retry handler's objects
retryVars == <<op, cb>>

vars == <<buildVars, uploadVars, retryVars>>

NoneValue == "None"

\* ------------------------------------------------------------------ bounds

\* Largest number of ContentBlocks in one slide_structure.
MaxBlocks == 2

\* ------------------------------------------------------- python helpers

Min(a, b) == IF a < b THEN a ELSE b

\* dict.get(key, default)
Get(d, key, default) == IF key \in DOMAIN d THEN d[key] ELSE default

Whitespace == {" ", "\n", "\t"}

RECURSIVE LStrip(_)
LStrip(s) ==
    IF s = <<>> THEN <<>>
    ELSE IF Head(s) \in Whitespace THEN LStrip(Tail(s)) ELSE s

RECURSIVE RStrip(_)
RStrip(s) ==
    IF s = <<>> THEN <<>>
    ELSE IF s[Len(s)] \in Whitespace THEN RStrip(SubSeq(s, 1, Len(s) - 1)) ELSE s

\* str.strip()
Strip(s) == RStrip(LStrip(s))

\* a text is blank when nothing but whitespace is rendered
IsBlankText(s) == \A i \in 1..Len(s) : s[i] \in Whitespace

\* '\n'.join(items)
RECURSIVE JoinLines(_)
JoinLines(items) ==
    IF items = <<>> THEN <<>>
    ELSE IF Len(items) = 1 THEN items[1]
    ELSE items[1] \o <<"\n">> \o JoinLines(Tail(items))

\* ------------------------------------------------------------ templates

PH_TITLE == 1
PH_BODY == 2

\* a type attribute that is no member of PP_PLACEHOLDER: reading
\* placeholder_format.type raises
PH_INVALID == -1

\* A placeholder without a position and size, with none to inherit.
PhBare(type, idx) == [type |-> type, idx |-> idx]

\* One placeholder of a layout: PP_PLACEHOLDER type, placeholder idx, geometry.
Ph(type, idx, left, top, width, height) ==
    [type |-> type, idx |-> idx, left |-> left, top |-> top,
     width |-> width, height |-> height]

\* A picture shape on a slide shipped inside the template.
Pic(left, top, width, height, size) ==
    [picture |-> TRUE, left |-> left, top |-> top, width |-> width,
     height |-> height, blob |-> size]

\* One entry of the colour scheme of the slide master: a colour with an rgb
\* value, or an entry without one.
Rgb(value) == [rgb |-> value]

NoRgb == [scheme |-> TRUE]

\* A single "Title and Content" layout, no slides; its master exposes no theme.
TplSingle ==
    [slide_width |-> 9144000, slide_height |-> 6858000,
     layouts |-> << [name |-> "Title and Content",
                     placeholders |-> << Ph(1, 0, 10, 5, 100, 20),
                                         Ph(2, 1, 10, 30, 100, 60) >>] >>,
     slides |-> << >>,
     theme |-> FALSE, colors |-> << >>, fonts |-> << >>]

\* Title-only layout first; the content layout holds an OBJECT placeholder
\* before its BODY placeholder and a FOOTER; one slide with a logo picture.
TplOffice ==
    [slide_width |-> 12192000, slide_height |-> 6858000,
     layouts |-> << [name |-> "Title Only",
                     placeholders |-> << Ph(1, 0, 12, 6, 120, 24) >>],
                    [name |-> "Title and Content",
                     placeholders |-> << Ph(1, 0, 12, 6, 120, 24),
                                         Ph(7, 1, 12, 36, 58, 70),
                                         Ph(2, 2, 74, 36, 58, 70),
                                         Ph(15, 11, 12, 110, 40, 8) >>] >>,
     slides |-> << << Pic(2, 3, 16, 9, 2048) >> >>,
     theme |-> TRUE,
     colors |-> << Rgb(16777215), Rgb(0), Rgb(15658734), Rgb(2051705),
                   Rgb(4485828), Rgb(15564081), Rgb(10855845), Rgb(16760832),
                   Rgb(5999573), Rgb(7384391), Rgb(353217), Rgb(9785202) >>,
     fonts |-> [major |-> "Calibri Light", minor |-> "Calibri"]]

\* Two layouts sharing one name; the first lists its BODY placeholder before
\* the title, the second has a PICTURE placeholder and no BODY.
TplCustom ==
    [slide_width |-> 9144000, slide_height |-> 5143500,
     layouts |-> << [name |-> "Custom",
                     placeholders |-> << Ph(2, 1, 8, 28, 90, 50),
                                         Ph(1, 0, 8, 4, 90, 18),
                                         Ph(2, 2, 8, 80, 90, 10) >>],
                    [name |-> "Custom",
                     placeholders |-> << Ph(3, 0, 8, 4, 90, 18),
                                         Ph(18, 1, 8, 28, 90, 50) >>] >>,
     slides |-> << << [picture |-> FALSE], Pic(1, 1, 4, 4, 512) >>,
                   << Pic(70, 1, 4, 4, 512) >> >>,
     theme |-> TRUE,
     colors |-> << Rgb(255), NoRgb, Rgb(4096) >>,
     fonts |-> [major |-> "Arial"]]

Templates == {TplSingle, TplOffice, TplCustom}

\* A layout whose BODY placeholder carries no idx attribute, so that its idx
\* reads 0, followed by an OBJECT placeholder.
TplBodyOnly ==
    [slide_width |-> 9144000, slide_height |-> 6858000,
     layouts |-> << [name |-> "Text",
                     placeholders |-> << Ph(2, 0, 10, 5, 100, 20),
                                         Ph(7, 1, 10, 30, 100, 60) >>] >>,
     slides |-> << >>,
     theme |-> FALSE, colors |-> << >>, fonts |-> << >>]

\* an upload that Presentation(template_path) cannot open
TplUnreadable == [unreadable |-> TRUE]

Readable(t) == "unreadable" \notin DOMAIN t

\* what a request can upload
Packages == Templates \cup {TplUnreadable}

\* ------------------------------------------------------------ extractor

\* str(placeholder.placeholder_format.type).split('.')[-1]: the enum member
\* prints as its name followed by its value.
PlaceholderKind(type) ==
    CASE type = 1 -> "TITLE (1)"
      [] type = 2 -> "BODY (2)"
      [] type = 3 -> "CENTER_TITLE (3)"
      [] type = 7 -> "OBJECT (7)"
      [] type = 15 -> "FOOTER (15)"
      [] type = 18 -> "PICTURE (18)"
      [] OTHER -> "MIXED (-2)"

ExtractPlaceholder(p) ==
    [kind |-> PlaceholderKind(p.type), left |-> p.left, top |-> p.top,
     width |-> p.width, height |-> p.height]

\* building ph_data succeeds: the type attribute is a member of the
\* enumeration and the placeholder has a position and a size of its own or
\* inherited (int(None) raises)
PlaceholderReadable(p) == p.type # PH_INVALID /\ "left" \in DOMAIN p

\* the placeholder loop of one layout: a placeholder whose ph_data cannot be
\* built is passed over by the bare except
RECURSIVE ExtractPlaceholders(_)
ExtractPlaceholders(placeholders) ==
    IF placeholders = <<>> THEN <<>>
    ELSE (IF PlaceholderReadable(Head(placeholders))
          THEN << ExtractPlaceholder(Head(placeholders)) >> ELSE <<>>)
         \o ExtractPlaceholders(Tail(placeholders))

ExtractLayout(t, i) ==
    [index |-> i - 1,
     name |-> t.layouts[i].name,
     placeholders |-> ExtractPlaceholders(t.layouts[i].placeholders)]

\* the pictures of one slide, in shape order
RECURSIVE ExtractSlideImages(_, _, _)
ExtractSlideImages(t, s, k) ==
    IF k > Len(t.slides[s]) THEN <<>>
    ELSE LET shape == t.slides[s][k]
             rest == ExtractSlideImages(t, s, k + 1)
         IN IF shape.picture
            THEN << [id |-> <<"img", s - 1, k - 1>>,
                     left |-> shape.left, top |-> shape.top,
                     width |-> shape.width, height |-> shape.height,
                     usage_hint |-> <<"appears on slide", s>>,
                     size_bytes |-> shape.blob] >> \o rest
            ELSE rest

RECURSIVE ExtractImages(_, _)
ExtractImages(t, s) ==
    IF s > Len(t.slides) THEN <<>>
    ELSE ExtractSlideImages(t, s, 1) \o ExtractImages(t, s + 1)

\* the colour loop reads the indexes range(12) of the colour scheme
ColorIndexes == 0..11

\* color_name of the colour read at index j
ColorName(j) ==
    CASE j = 0 -> "bg1"
      [] j = 1 -> "text1"
      [] j = 2 -> "bg2"
      [] j = 3 -> "text2"
      [] j = 4 -> "accent1"
      [] j = 5 -> "accent2"
      [] j = 6 -> "accent3"
      [] j = 7 -> "accent4"
      [] j = 8 -> "accent5"
      [] j = 9 -> "accent6"
      [] j = 10 -> "theme_color_10"
      [] OTHER -> "theme_color_11"

HexDigits ==
    <<"0", "1", "2", "3", "4", "5", "6", "7", "8", "9", "a", "b", "c", "d", "e", "f">>

\* format(value, 'x') zero-padded to the given number of digits
RECURSIVE HexPadded(_, _)
HexPadded(value, digits) ==
    IF digits = 0 /\ value = 0 THEN <<>>
    ELSE HexPadded(value \div 16, IF digits = 0 THEN 0 ELSE digits - 1)
         \o << HexDigits[(value % 16) + 1] >>

\* f"#{color.rgb:06x}"
ColorHex(color) == <<"#">> \o HexPadded(color.rgb, 6)

\* the indexes whose colour is read and has an rgb value; an index past the
\* end of the scheme raises and is skipped
ReadableColors(t) ==
    IF t.theme
    THEN {j \in ColorIndexes : j < Len(t.colors) /\ "rgb" \in DOMAIN t.colors[j + 1]}
    ELSE {}

\* raw_data["theme"]["colors"]: a dict from colour name to hex string
ExtractThemeColors(t) ==
    [name \in {ColorName(j) : j \in ReadableColors(t)} |->
        ColorHex(t.colors[(CHOOSE j \in ReadableColors(t) : ColorName(j) = name) + 1])]

\* raw_data["theme"]["fonts"]: the latin typeface of the major and minor font
ExtractThemeFonts(t) ==
    IF t.theme THEN t.fonts ELSE << >>

\* the value the except clause of extract_raw_template_data returns
DefaultRawTemplateData ==
    [slide_size |-> [width_emu |-> 9144000, height_emu |-> 6858000],
     theme |-> [colors |-> << >>, fonts |-> << >>],
     layouts |-> << >>,
     images |-> << >>]

ExtractRawTemplateData(t) ==
    IF ~Readable(t) THEN DefaultRawTemplateData
    ELSE
    [slide_size |-> [width_emu |-> t.slide_width, height_emu |-> t.slide_height],
     theme |-> [colors |-> ExtractThemeColors(t), fonts |-> ExtractThemeFonts(t)],
     layouts |-> [i \in 1..Len(t.layouts) |-> ExtractLayout(t, i)],
     images |-> ExtractImages(t, 1)]

\* ------------------------------------------------------------ JSON values

\* A JSON value of the manifest whose type the code depends on: a string
\* (its characters), a number, or a list.
Str(chars) == [str |-> chars]

Num(n) == [num |-> n]

List(items) == [list |-> items]

IsStr(v) == "str" \in DOMAIN v

IsNum(v) == "num" \in DOMAIN v

\* bool(v)
JsonTruthy(v) ==
    IF IsStr(v) THEN v.str # <<>>
    ELSE IF IsNum(v) THEN v.num # 0
    ELSE v.list # <<>>

\* ----------------------------------------------------- manifest builder

RequiredKeys == {"slide_size", "theme", "layouts", "text_defaults", "assets", "rules"}

Archetypes == {"title_only", "title_content", "two_content", "section_header", "other"}

PlaceholderKinds == {"TITLE", "BODY", "PICTURE", "FOOTER"}

ApplyPolicies == {"all", "title_only", "none"}

\* _create_fallback_manifest(raw_data)
CreateFallbackManifest(raw_data) ==
    [slide_size |-> Get(raw_data, "slide_size",
                        [width_emu |-> 9144000, height_emu |-> 6858000]),
     theme |-> [palette |->
                   [primary |-> Str(<<"#", "1", "f", "4", "e", "7", "9">>),
                    secondary |-> Str(<<"#", "4", "4", "7", "2", "c", "4">>),
                    accent |-> List(<< Str(<<"#", "4", "4", "7", "2", "c", "4">>),
                                       Str(<<"#", "e", "d", "7", "d", "3", "1">>) >>),
                    text |-> Str(<<"#", "0", "0", "0", "0", "0", "0">>),
                    background |-> Str(<<"#", "f", "f", "f", "f", "f", "f">>)],
                fonts |-> [title_family |-> "Calibri", body_family |-> "Calibri"]],
     layouts |-> Get(raw_data, "layouts", <<>>),
     text_defaults |-> [title |-> [family |-> "Calibri", size_pt |-> Num(32),
                                   bold |-> TRUE, color |-> "primary"],
                        body |-> << [level |-> 0, family |-> "Calibri",
                                     size_pt |-> Num(18), color |-> "text"] >>],
     assets |-> Get(raw_data, "images", <<>>),
     rules |-> [title_color |-> "primary", body_color |-> "text",
                logo_policy |-> "Apply logos as found in template"]]

\* What the assisted normalization is asked to return (the prompt's schema):
\* raw kinds mapped to the four canonical kinds, an id and an archetype per
\* layout, an apply_on policy per image, geometry copied.
CanonicalKind(kind) ==
    CASE kind \in {"TITLE (1)", "CENTER_TITLE (3)"} -> "TITLE"
      [] kind \in {"BODY (2)", "OBJECT (7)"} -> "BODY"
      [] kind = "PICTURE (18)" -> "PICTURE"
      [] OTHER -> "FOOTER"

NormalizedLayout(l, archetype) ==
    [id |-> <<"L", l.index>>, name |-> l.name, archetype |-> archetype,
     placeholders |-> [k \in 1..Len(l.placeholders) |->
                          [kind |-> CanonicalKind(l.placeholders[k].kind),
                           left |-> l.placeholders[k].left,
                           top |-> l.placeholders[k].top,
                           width |-> l.placeholders[k].width,
                           height |-> l.placeholders[k].height]]]

NormalizedAsset(img, policy) ==
    [id |-> img.id, left |-> img.left, top |-> img.top, width |-> img.width,
     height |-> img.height, apply_on |-> policy]

NormalizedManifest(raw_data, archetypes, policy) ==
    [slide_size |-> raw_data.slide_size,
     theme |-> [palette |->
                   [primary |-> Str(<<"#", "1", "1", "2", "2", "3", "3">>),
                    secondary |-> Str(<<"#", "4", "4", "5", "5", "6", "6">>),
                    accent |-> List(<< Str(<<"#", "7", "7", "8", "8", "9", "9">>) >>),
                    text |-> Str(<<"#", "0", "0", "0", "0", "0", "0">>),
                    background |-> Str(<<"#", "f", "f", "f", "f", "f", "f">>)],
                fonts |-> [title_family |-> "Arial", body_family |-> "Arial"]],
     layouts |-> [i \in 1..Len(raw_data.layouts) |->
                     NormalizedLayout(raw_data.layouts[i], archetypes[i])],
     text_defaults |-> [title |-> [family |-> "Arial", size_pt |-> Num(30),
                                   bold |-> TRUE, color |-> "primary"],
                        body |-> << [level |-> 0, family |-> "Arial",
                                     size_pt |-> Num(18), color |-> "text"] >>],
     assets |-> [i \in 1..Len(raw_data.images) |->
                    NormalizedAsset(raw_data.images[i], policy)],
     rules |-> [title_color |-> "primary", body_color |-> "text",
                logo_policy |-> "logo on every slide"]]

\* a JSON object lacking one top-level key
WithoutKey(m, key) == [k \in (DOMAIN m) \ {key} |-> m[k]]

\* a result whose first placeholder of every layout was moved and resized
MovedPlaceholder(p) ==
    [p EXCEPT !.left = p.left + 1, !.width = p.width - 1]

WithMovedGeometry(m) ==
    [m EXCEPT !.layouts =
        [i \in 1..Len(m.layouts) |->
            [m.layouts[i] EXCEPT !.placeholders =
                [k \in 1..Len(m.layouts[i].placeholders) |->
                    IF k = 1 THEN MovedPlaceholder(m.layouts[i].placeholders[k])
                    ELSE m.layouts[i].placeholders[k]]]]]

\* archetypes the assisted step assigns in the builds of Spec
BuildArchetypes == {"title_only", "title_content", "section_header"}

ArchetypeAssignments(raw_data, S) == [1..Len(raw_data.layouts) -> S]

ReferenceManifest(raw_data) ==
    NormalizedManifest(raw_data,
                       [i \in 1..Len(raw_data.layouts) |-> "title_content"], "all")

\* a result whose images were given one apply_on policy each
PolicyAssignments(raw_data) == [1..Len(raw_data.images) -> ApplyPolicies]

WithPolicies(m, policies) ==
    [m EXCEPT !.assets =
        [i \in 1..Len(m.assets) |-> [m.assets[i] EXCEPT !.apply_on = policies[i]]]]

\* parsed results make_manifest_call can return for this raw data
AssistedResults(raw_data) ==
    {NormalizedManifest(raw_data, a, "title_only") :
        a \in ArchetypeAssignments(raw_data, BuildArchetypes)}
    \cup {WithPolicies(ReferenceManifest(raw_data), p) :
            p \in PolicyAssignments(raw_data)}
    \cup {WithoutKey(ReferenceManifest(raw_data), "rules"),
          WithMovedGeometry(ReferenceManifest(raw_data))}

\* errors of one attempt: the remote call fails, or the response holds no JSON
CallErrors == {"connection timeout", "No valid JSON found in response"}

\* max_retries of a RetryConfig built without arguments
default_max_retries == 3

\* RetryConfigs.LLM_API.max_retries
max_retries == 2

\* is_retryable_error(error, config): a retryable phrase in the message, or an
\* instance of a class in config.retryable_errors, which holds Exception.
IsRetryableError(error) ==
    \/ error \in {"connection timeout"}
    \/ TRUE

\* -------------------------------------------------------- content blocks

LongContentThreshold == 200

StrContent(text) == [is_list |-> FALSE, text |-> text, items |-> <<>>]

ListContent(items) == [is_list |-> TRUE, text |-> <<>>, items |-> items]

Block(title, content, hint, notes) ==
    [title |-> title, content |-> content, layout_hint |-> hint,
     speaker_notes |-> notes]

TitleT == <<"Q", "3">>
BlankText == <<" ", " ">>
ShortText == <<"O", "n", "e", " ", "p", "o", "i", "n", "t">>
LongText == [i \in 1..(LongContentThreshold + 1) |-> "x"]
ItemA == <<"a", "l", "p", "h", "a">>
ItemB == <<"b", "e", "t", "a">>
NotesText == <<"s", "a", "y", " ", "h", "i">>

Titles == {<<>>, TitleT}

Hints == {"", "section"}

Contents ==
    {StrContent(<<>>), StrContent(BlankText), StrContent(ShortText),
     StrContent(LongText), ListContent(<<>>), ListContent(<<ItemA, ItemB>>)}

\* every block the resolver and the styling are applied to in SpecResolver
AllBlocks == {Block(t, c, h, <<>>) : t \in Titles, c \in Contents, h \in Hints}

\* the blocks of the builds of Spec
BuildBlocks ==
    {Block(TitleT, StrContent(<<>>), "section", <<>>),
     Block(TitleT, StrContent(LongText), "", NotesText),
     Block(TitleT, StrContent(ShortText), "section", <<>>),
     Block(TitleT, StrContent(BlankText), "", <<>>),
     Block(<<>>, StrContent(<<>>), "", <<>>),
     Block(TitleT, ListContent(<<ItemA, ItemB>>), "", <<>>),
     Block(TitleT, ListContent(<<>>), "", <<>>),
     Block(TitleT, StrContent(ShortText), "", <<>>)}

BlockLists == UNION {[1..n -> BuildBlocks] : n \in 0..MaxBlocks}

\* bool(body_content) of a str or a list
Truthy(content) ==
    IF content.is_list THEN content.items # <<>> ELSE content.text # <<>>

\* input_text.split('. ')
RECURSIVE SplitSentences(_, _)
SplitSentences(text, sentence) ==
    IF text = <<>> THEN << sentence >>
    ELSE IF Len(text) >= 2 /\ text[1] = "." /\ text[2] = " "
         THEN << sentence >> \o SplitSentences(SubSeq(text, 3, Len(text)), <<>>)
         ELSE SplitSentences(Tail(text), Append(sentence, Head(text)))

\* [sentence.strip() + '.' for sentence in chunk if sentence.strip()]
RECURSIVE ChunkContent(_)
ChunkContent(chunk) ==
    IF chunk = <<>> THEN <<>>
    ELSE (IF Strip(Head(chunk)) # <<>>
          THEN << Strip(Head(chunk)) \o <<".">> >> ELSE <<>>)
         \o ChunkContent(Tail(chunk))

PresentationOverview ==
    <<"P", "r", "e", "s", "e", "n", "t", "a", "t", "i", "o", "n", " ", "O",
      "v", "e", "r", "v", "i", "e", "w">>

GeneratedFromText ==
    <<"G", "e", "n", "e", "r", "a", "t", "e", "d", " ", "f", "r", "o", "m",
      " ", "p", "r", "o", "v", "i", "d", "e", "d", " ", "t", "e", "x", "t",
      " ", "c", "o", "n", "t", "e", "n", "t">>

\* f'Key Points {slide_num - 1}'
KeyPoints(number) ==
    <<"K", "e", "y", " ", "P", "o", "i", "n", "t", "s", " ">>
        \o << HexDigits[number + 1] >>

\* the content slides of _create_fallback_structure from sentence i on
\* (i counts from 0), slides being the slides built so far
RECURSIVE FallbackSlides(_, _, _, _)
FallbackSlides(sentences, i, chunk_size, slides) ==
    IF i >= Len(sentences) THEN slides
    ELSE LET chunk == SubSeq(sentences, i + 1, Min(i + chunk_size, Len(sentences)))
             slide_num == Len(slides) + 1
         IN FallbackSlides(sentences, i + chunk_size, chunk_size,
                Append(slides, Block(KeyPoints(slide_num - 1),
                                     ListContent(ChunkContent(chunk)), "", <<>>)))

\* _create_fallback_structure(input_text): a title slide, then one slide per
\* chunk of max(3, len(sentences) // 5) sentences
CreateFallbackStructure(input_text) ==
    LET sentences == SplitSentences(input_text, <<>>)
        chunk_size == IF Len(sentences) \div 5 > 3 THEN Len(sentences) \div 5 ELSE 3
    IN FallbackSlides(sentences, 0, chunk_size,
           << Block(PresentationOverview, StrContent(GeneratedFromText), "", <<>>) >>)

\* responses holding a brace and no valid JSON: json.loads raises and the
\* except clause of _parse_llm_response chunks the response text
MalformedResponses ==
    {<<"{", "a", ".", " ", "b">>,
     <<"{", "a", ".", " ", " ", ".", " ", "b", ".", " ", "c", ".", " ", "d">>}

\* the values _parse_llm_response can return
ParsedStructures ==
    BlockLists \cup {CreateFallbackStructure(r) : r \in MalformedResponses}

\* ------------------------------------------------------- layout resolver

\* index of the first layout_def whose archetype is one of the given, 0 if
\* none; a layout_def without archetype matches none
FirstLayoutDef(layouts, archetypes) ==
    IF \E i \in 1..Len(layouts) : Get(layouts[i], "archetype", NoneValue) \in archetypes
    THEN CHOOSE i \in 1..Len(layouts) :
            /\ Get(layouts[i], "archetype", NoneValue) \in archetypes
            /\ \A j \in 1..(i - 1) :
                  Get(layouts[j], "archetype", NoneValue) \notin archetypes
    ELSE 0

\* the archetypes for which 'content' in archetype.lower() holds
ContentArchetypes == {"title_content", "two_content", "Content_Caption", "content"}

\* 'content' in layout_def.get('archetype', '').lower()
ContainsContent(archetype) == archetype \in ContentArchetypes

\* hard default of the callers and of _find_layout_by_name:
\* prs.slide_layouts[1] if len(prs.slide_layouts) > 1 else prs.slide_layouts[0];
\* 0 stands for the IndexError of an empty layout list
DefaultLayout(prs) ==
    IF Len(prs) > 1 THEN 2 ELSE IF Len(prs) = 1 THEN 1 ELSE 0

\* a name lookup that returns the last layout of the name
FindLastLayoutByName(layout_name, prs) ==
    IF \E i \in 1..Len(prs) : prs[i].name = layout_name
    THEN CHOOSE i \in 1..Len(prs) :
            /\ prs[i].name = layout_name
            /\ \A j \in (i + 1)..Len(prs) : prs[j].name # layout_name
    ELSE IF Len(prs) > 1 THEN 2 ELSE IF Len(prs) = 1 THEN 1 ELSE 0

\* _find_layout_by_name(layout_name, prs); 0 is None
FindLayoutByName(layout_name, prs) ==
    IF \E i \in 1..Len(prs) : prs[i].name = layout_name
    THEN CHOOSE i \in 1..Len(prs) :
            /\ prs[i].name = layout_name
            /\ \A j \in 1..(i - 1) : prs[j].name # layout_name
    ELSE DefaultLayout(prs)

\* a decision order that tries two_content before title_content for
\* content above the threshold
ChooseLongContentFirst(slide_content, manifest_layouts) ==
    LET content == slide_content.content.text
        has_content == Strip(content) # <<>>
        long == Len(content) > 200
        archetypes == [i \in 1..Len(manifest_layouts) |->
                          Get(manifest_layouts[i], "archetype", NoneValue)]
        First(S) == IF \E i \in 1..Len(archetypes) : archetypes[i] \in S
                    THEN CHOOSE i \in 1..Len(archetypes) :
                            /\ archetypes[i] \in S
                            /\ \A j \in 1..(i - 1) : archetypes[j] \notin S
                    ELSE 0
        order == IF ~has_content THEN <<{"section_header", "title_only"}>>
                 ELSE (IF long THEN <<{"two_content"}>> ELSE <<>>)
                      \o <<{"title_content"},
                           {"title_content", "two_content", "Content_Caption", "content"}>>
                      \o (IF slide_content.layout_hint = "section"
                          THEN <<{"section_header", "title_only"}>> ELSE <<>>)
        hits == {k \in 1..Len(order) : First(order[k]) # 0}
    IN IF hits = {} THEN 1
       ELSE First(order[CHOOSE k \in hits : \A j \in hits : k <= j])

\* the layout_def the decision order stops at, for str content
ChooseLayoutDef(slide_content, manifest_layouts) ==
    LET content == slide_content.content.text
        has_content == Strip(content) # <<>>
        content_length == Len(content)
        content_type == slide_content.layout_hint
        first == FirstLayoutDef(manifest_layouts, {"title_content"})
        second == IF content_length > LongContentThreshold
                  THEN FirstLayoutDef(manifest_layouts, {"two_content"}) ELSE 0
        third == FirstLayoutDef(manifest_layouts, ContentArchetypes)
        section == IF content_type = "section" \/ ~has_content
                   THEN FirstLayoutDef(manifest_layouts,
                                       {"section_header", "title_only"})
                   ELSE 0
        by_content == IF has_content /\ content_length > 0
                      THEN IF first # 0 THEN first
                           ELSE IF second # 0 THEN second ELSE third
                      ELSE 0
    IN IF by_content # 0 THEN by_content
       ELSE IF section # 0 THEN section
       ELSE 1

\* a resolver that gives the first slide of the deck the first layout
ResolveTitleSlideFirst(slide_content, mf, slide_idx, prs) ==
    LET manifest_layouts == Get(mf, "layouts", <<>>)
    IN IF manifest_layouts = <<>> THEN 0
       ELSE IF slide_idx = 0 THEN 1
       ELSE IF slide_content.content.is_list THEN 0
       ELSE FindLayoutByName(
                Get(manifest_layouts[ChooseLayoutDef(slide_content, manifest_layouts)],
                    "name", NoneValue),
                prs)

\* _resolve_layout_from_manifest(slide_content, manifest, slide_idx, prs):
\* the document layout (index into prs.slide_layouts), 0 for None.  A list
\* has no strip(): the AttributeError is caught and None returned.
ResolveLayoutFromManifest(slide_content, mf, slide_idx, prs) ==
    LET manifest_layouts == Get(mf, "layouts", <<>>)
    IN IF manifest_layouts = <<>> THEN 0
       ELSE IF slide_content.content.is_list THEN 0
       ELSE FindLayoutByName(
                Get(manifest_layouts[ChooseLayoutDef(slide_content, manifest_layouts)],
                    "name", NoneValue),
                prs)

\* ------------------------------------------- slide instantiation, styling

\* run.font of a shape nothing was applied to: name, size (EMU), bold and
\* colour are inherited
NoFont == [name |-> NoneValue, size |-> 0, bold |-> FALSE, rgb |-> <<>>]

\* prs.slides.add_slide(layout): the new slide holds a clone of every layout
\* placeholder except date, footer and slide-number placeholders, text empty.
RECURSIVE ClonePlaceholders(_)
ClonePlaceholders(placeholders) ==
    IF placeholders = <<>> THEN <<>>
    ELSE LET p == Head(placeholders)
             rest == ClonePlaceholders(Tail(placeholders))
         IN IF p.type \in {13, 15, 16} THEN rest
            ELSE << [type |-> p.type, idx |-> p.idx, text |-> <<>>,
                     font |-> NoFont] >> \o rest

\* the first of the shapes (indexes in shape order) a loop stops at, 0 if none
FirstShape(found) ==
    IF found = {} THEN 0
    ELSE CHOOSE k \in found : \A j \in found : k <= j

\* slide.shapes.title: the placeholder with idx 0
TitleShape(shapes) ==
    FirstShape({k \in 1..Len(shapes) : shapes[k].idx = 0})

\* slide.placeholders[1]: placeholders iterate in idx order
PlaceholderAtIndexOne(shapes) ==
    FirstShape({k \in 1..Len(shapes) :
        Cardinality({j \in 1..Len(shapes) : shapes[j].idx < shapes[k].idx}) = 1})

\* a body search that tries the placeholder index before the BODY type
FindBodyShapeByIndexFirst(shapes) ==
    LET title == TitleShape(shapes)
        all == 1..Len(shapes)
        method1 == FirstShape({k \in all : shapes[k].type = PH_BODY})
        method2 == PlaceholderAtIndexOne(shapes)
    IN IF method2 # 0 THEN method2
       ELSE IF method1 # 0 THEN method1
       ELSE FirstShape({k \in all : k # title})

\* the four methods of the body search, first success wins; 0 is None
FindBodyShape(shapes) ==
    LET title == TitleShape(shapes)
        all == 1..Len(shapes)
        method1 == FirstShape({k \in all : shapes[k].type = PH_BODY})
        method2 == PlaceholderAtIndexOne(shapes)
        method3 == FirstShape({k \in all : shapes[k].type # PH_TITLE /\ k # title})
        method4 == FirstShape({k \in all : k # title})
    IN IF method1 # 0 THEN method1
       ELSE IF method2 # 0 THEN method2
       ELSE IF method3 # 0 THEN method3
       ELSE method4

KeyPointsAbout ==
    <<"K", "e", "y", " ", "p", "o", "i", "n", "t", "s", " ",
      "a", "b", "o", "u", "t", " ">>

ContentWillBeAdded ==
    <<"C", "o", "n", "t", "e", "n", "t", " ", "w", "i", "l", "l", " ",
      "b", "e", " ", "a", "d", "d", "e", "d", " ", "h", "e", "r", "e">>

\* the bullet character U+2022 of the list rendering
Bullet == "*"

\* body_text of _apply_manifest_styling
BodyText(slide_content) ==
    LET title_text == slide_content.title
        body_content == slide_content.content
    IN IF ~Truthy(body_content)
       THEN IF title_text # <<>> THEN KeyPointsAbout \o title_text
            ELSE ContentWillBeAdded
       ELSE IF body_content.is_list
            THEN JoinLines([i \in 1..Len(body_content.items) |->
                               <<Bullet, " ">> \o body_content.items[i]])
            ELSE body_content.text

SetText(shapes, k, text) ==
    IF k = 0 THEN shapes ELSE [shapes EXCEPT ![k].text = text]

UpperHexDigits ==
    <<"0", "1", "2", "3", "4", "5", "6", "7", "8", "9", "A", "B", "C", "D", "E", "F">>

\* the value of one character as a digit of base 16, -1 if it is none
HexValue(c) ==
    IF \E v \in 0..15 : c \in {HexDigits[v + 1], UpperHexDigits[v + 1]}
    THEN CHOOSE v \in 0..15 : c \in {HexDigits[v + 1], UpperHexDigits[v + 1]}
    ELSE -1

RECURSIVE DigitsValue(_)
DigitsValue(digits) ==
    IF digits = <<>> THEN 0
    ELSE DigitsValue(SubSeq(digits, 1, Len(digits) - 1)) * 16
         + HexValue(digits[Len(digits)])

\* int(s, 16) of a two-character slice: surrounding whitespace is dropped,
\* a sign is accepted, the rest must be digits (a 0x prefix or an underscore
\* needs more than two characters).  The set holding the value, or the
\* empty set for a ValueError.
IntBase16(s) ==
    LET t == Strip(s)
        signed == t # <<>> /\ t[1] \in {"+", "-"}
        digits == IF signed THEN Tail(t) ELSE t
    IN IF digits = <<>> \/ \E i \in 1..Len(digits) : HexValue(digits[i]) = -1
       THEN {}
       ELSE {IF signed /\ t[1] = "-" THEN 0 - DigitsValue(digits)
             ELSE DigitsValue(digits)}

\* str.replace(c, '')
RECURSIVE RemoveChar(_, _)
RemoveChar(s, c) ==
    IF s = <<>> THEN <<>>
    ELSE (IF Head(s) = c THEN <<>> ELSE << Head(s) >>) \o RemoveChar(Tail(s), c)

\* RGBColor(int(h[0:2], 16), int(h[2:4], 16), int(h[4:6], 16)) of six
\* characters: the three components, or <<>> when int or RGBColor (which
\* takes integers 0..255) raises
RGBColorOf(color_hex) ==
    LET parts == [k \in 1..3 |-> IntBase16(SubSeq(color_hex, 2 * k - 1, 2 * k))]
    IN IF \A k \in 1..3 : parts[k] # {} /\ parts[k] \subseteq 0..255
       THEN [k \in 1..3 |-> CHOOSE v \in parts[k] : TRUE]
       ELSE <<>>

\* paragraphs[0].runs of a text frame whose text was set: the first
\* paragraph has a run when the first line is not empty
HasRuns(text) == text # <<>> /\ Head(text) # "\n"

\* _apply_text_formatting(text_frame, format_rules, palette): the shape with
\* the font of its first run changed.  An exception (Pt of a size that is no
\* number, replace on a palette value that is no string) ends the function
\* at that statement.
ApplyTextFormatting(text_frame, format_rules, palette) ==
    LET family == Get(format_rules, "family", "")
        named == IF family # ""
                 THEN [text_frame EXCEPT !.font.name = family] ELSE text_frame
        size_pt == Get(format_rules, "size_pt", Num(0))
        sized == IF JsonTruthy(size_pt)
                 THEN [named EXCEPT !.font.size = size_pt.num * 12700] ELSE named
        bolded == IF Get(format_rules, "bold", FALSE)
                  THEN [sized EXCEPT !.font.bold = TRUE] ELSE sized
        color_key == Get(format_rules, "color", NoneValue)
        color_hex == RemoveChar(palette[color_key].str, "#")
    IN IF ~HasRuns(text_frame.text) THEN text_frame
       ELSE IF JsonTruthy(size_pt) /\ ~IsNum(size_pt) THEN named
       ELSE IF color_key = NoneValue \/ color_key \notin DOMAIN palette
            THEN bolded
       ELSE IF ~JsonTruthy(palette[color_key]) \/ ~IsStr(palette[color_key])
            THEN bolded
       ELSE IF Len(color_hex) = 6 /\ RGBColorOf(color_hex) # <<>>
            THEN [bolded EXCEPT !.font.rgb = RGBColorOf(color_hex)]
       ELSE bolded

\* a shape of the shapes formatted, 0 being no shape
FormatShape(shapes, k, format_rules, palette) ==
    IF k = 0 THEN shapes
    ELSE [shapes EXCEPT ![k] = ApplyTextFormatting(shapes[k], format_rules, palette)]

\* _apply_manifest_styling(slide, slide_content, manifest): the shapes with
\* the title and body text written and formatted, and the body shape found
\* (0 for None).  text_defaults.get('body', [{}])[0] of an empty list raises
\* after the body text was written.
ApplyManifestStyling(shapes, slide_content, mf) ==
    LET text_defaults == Get(mf, "text_defaults", << >>)
        theme_palette == Get(Get(mf, "theme", << >>), "palette", << >>)
        title_rules == Get(text_defaults, "title", << >>)
        body_list == Get(text_defaults, "body", << << >> >>)
        titled == FormatShape(SetText(shapes, TitleShape(shapes), slide_content.title),
                              TitleShape(shapes), title_rules, theme_palette)
        body_shape == FindBodyShape(titled)
        written == SetText(titled, body_shape, BodyText(slide_content))
    IN [shapes |-> IF body_list = << >> THEN written
                   ELSE FormatShape(written, body_shape, body_list[1], theme_palette),
        body |-> body_shape]

\* a placer that treats title_only like all
ShouldApplyOnEverySlide(asset, slide_idx) ==
    Get(asset, "apply_on", "none") \in {"all", "title_only"}

\* should_apply of _add_manifest_assets
ShouldApply(asset, slide_idx) ==
    LET apply_policy == Get(asset, "apply_on", "none")
    IN \/ apply_policy = "all"
       \/ (apply_policy = "title_only" /\ slide_idx = 0)

\* the ids _add_manifest_assets reports for a slide, in asset order
RECURSIVE AddManifestAssets(_, _)
AddManifestAssets(assets, slide_idx) ==
    IF assets = <<>> THEN <<>>
    ELSE (IF ShouldApply(Head(assets), slide_idx)
          THEN << Get(Head(assets), "id", NoneValue) >> ELSE <<>>)
         \o AddManifestAssets(Tail(assets), slide_idx)

\* the try block of _create_slide_with_manifest with add_slide succeeding
CreateSlideWithManifest(prs, slide_content, mf, slide_idx) ==
    LET resolved == ResolveLayoutFromManifest(slide_content, mf, slide_idx, prs)
        layout_choice == IF resolved = 0 THEN DefaultLayout(prs) ELSE resolved
        styled == ApplyManifestStyling(
                      ClonePlaceholders(prs[layout_choice].placeholders),
                      slide_content, mf)
    IN [src |-> slide_idx, resolved |-> resolved, layout |-> layout_choice,
        shapes |-> styled.shapes, body |-> styled.body, styled |-> TRUE,
        assets |-> AddManifestAssets(Get(mf, "assets", <<>>), slide_idx),
        notes |-> slide_content.speaker_notes]

\* the except block of _create_slide_with_manifest: title only
CreateBasicSlide(prs, slide_content, mf, slide_idx) ==
    LET layout == DefaultLayout(prs)
        shapes == ClonePlaceholders(prs[layout].placeholders)
    IN [src |-> slide_idx,
        resolved |-> ResolveLayoutFromManifest(slide_content, mf, slide_idx, prs),
        layout |-> layout,
        shapes |-> SetText(shapes, TitleShape(shapes), slide_content.title),
        body |-> 0, styled |-> FALSE, assets |-> <<>>, notes |-> <<>>]

\* the slides of the template package as slides of the loaded presentation
TemplateSlides(t) ==
    [i \in 1..Len(t.slides) |->
        [src |-> -1, resolved |-> 0, layout |-> 0, shapes |-> t.slides[i],
         body |-> 0, styled |-> FALSE, assets |-> <<>>, notes |-> <<>>]]

\* a loader that leaves the template's own slides in the presentation
KeepSlides(slides) == slides

\* the clearing loop: the slide ids are deleted from the last to the first
RECURSIVE DropSlides(_)
DropSlides(slides) ==
    IF slides = <<>> THEN <<>>
    ELSE DropSlides(SubSeq(slides, 1, Len(slides) - 1))

\* ---------------------------------------------------------------- actions

NoManifest == [none |-> TRUE]

\* no request handler is running beside the build
NoUploads ==
    /\ files = << >>
    /\ reqs = << >>
    /\ clock = 0

NoOperation == [status |-> "none"]

NoBreaker == [state |-> "none"]

\* no retryable operation and no circuit breaker exist
NoRetry ==
    /\ op = NoOperation
    /\ cb = NoBreaker

Init ==
    /\ pc = "extract"
    /\ tpl \in Packages
    /\ raw = NoManifest
    /\ attempt = 0
    /\ assisted = NoManifest
    /\ manifest = NoManifest
    /\ slide_structure = <<>>
    /\ deck = <<>>
    /\ content_attempt = 0
    /\ raised = NoneValue
    /\ NoUploads
    /\ NoRetry

\* app.generate_presentation step 1: extract_raw_template_data(template_path)
Extract ==
    /\ pc = "extract"
    /\ raw' = ExtractRawTemplateData(tpl)
    /\ pc' = "manifest"
    /\ UNCHANGED <<tpl, attempt, assisted, manifest, slide_structure, deck, content_attempt, raised>>
    /\ UNCHANGED <<uploadVars, retryVars>>

\* one attempt of RetryableOperation.execute(make_manifest_call) returns a
\* parsed result: generate_template_manifest returns it as it is
ManifestCallReturns ==
    /\ pc = "manifest"
    /\ \E candidate \in AssistedResults(raw) :
          /\ assisted' = candidate
          /\ manifest' = candidate
    /\ pc' = "content"
    /\ UNCHANGED <<tpl, raw, attempt, slide_structure, deck, content_attempt, raised>>
    /\ UNCHANGED <<uploadVars, retryVars>>

\* one attempt raises and execute goes on to the next attempt
ManifestCallRetried ==
    /\ pc = "manifest"
    /\ \E error \in CallErrors :
          /\ attempt # max_retries
          /\ IsRetryableError(error)
    /\ attempt' = attempt + 1
    /\ UNCHANGED <<pc, tpl, raw, assisted, manifest, slide_structure, deck, content_attempt, raised>>
    /\ UNCHANGED <<uploadVars, retryVars>>

\* the attempt raises and execute re-raises: the except clause of
\* generate_template_manifest returns the fallback
ManifestCallGivesUp ==
    /\ pc = "manifest"
    /\ \E error \in CallErrors :
          \/ attempt = max_retries
          \/ ~IsRetryableError(error)
    /\ manifest' = CreateFallbackManifest(raw)
    /\ pc' = "content"
    /\ UNCHANGED <<tpl, raw, attempt, assisted, slide_structure, deck, content_attempt, raised>>
    /\ UNCHANGED <<uploadVars, retryVars>>

\* step 3: one attempt of RetryableOperation.execute(make_llm_call) returns:
\* structure_text_to_slides returns the ContentBlock list parsed from the
\* response; the RetryableOperation of the call ends with it
StructureText ==
    /\ pc = "content"
    /\ slide_structure' \in ParsedStructures
    /\ content_attempt' = 0
    /\ pc' = "generate"
    /\ UNCHANGED <<tpl, raw, attempt, assisted, manifest, deck, raised>>
    /\ UNCHANGED <<uploadVars, retryVars>>

\* the remote call of one attempt raises and execute goes on to the next
ContentCallRetried ==
    /\ pc = "content"
    /\ \E failure \in CallErrors :
          /\ content_attempt # max_retries
          /\ IsRetryableError(failure)
    /\ content_attempt' = content_attempt + 1
    /\ UNCHANGED <<pc, tpl, raw, attempt, assisted, manifest, slide_structure, deck, raised>>
    /\ UNCHANGED <<uploadVars, retryVars>>

\* the remote call raises and execute re-raises: handle_llm_errors wraps the
\* exception in an LLMError, which reaches the request handler
ContentCallGivesUp ==
    /\ pc = "content"
    /\ \E failure \in CallErrors :
          \/ content_attempt = max_retries
          \/ ~IsRetryableError(failure)
    /\ pc' = "failed"
    /\ raised' = "LLMError"
    /\ UNCHANGED <<tpl, raw, attempt, assisted, manifest, slide_structure, deck, content_attempt>>
    /\ UNCHANGED <<uploadVars, retryVars>>

\* generate_presentation_with_manifest: load the template, drop its slides
LoadTemplate ==
    /\ pc = "generate"
    /\ Readable(tpl)
    /\ deck' = DropSlides(TemplateSlides(tpl))
    /\ pc' = "slides"
    /\ UNCHANGED <<tpl, raw, attempt, assisted, manifest, slide_structure, content_attempt, raised>>
    /\ UNCHANGED <<uploadVars, retryVars>>

\* Presentation(template_path) raises: generate_presentation_with_manifest
\* re-raises
LoadTemplateFails ==
    /\ pc = "generate"
    /\ ~Readable(tpl)
    /\ pc' = "failed"
    /\ raised' = "PackageNotFoundError"
    /\ UNCHANGED <<tpl, raw, attempt, assisted, manifest, slide_structure, deck, content_attempt>>
    /\ UNCHANGED <<uploadVars, retryVars>>

\* one iteration of the slide loop, add_slide succeeding; the deck holds one
\* slide per finished iteration, so its length is the enumerate index
CreateSlide ==
    /\ pc = "slides"
    /\ Len(deck) < Len(slide_structure)
    /\ deck' = Append(deck,
                      CreateSlideWithManifest(tpl.layouts,
                                              slide_structure[Len(deck) + 1],
                                              manifest, Len(deck)))
    /\ UNCHANGED <<pc, tpl, raw, attempt, assisted, manifest, slide_structure, content_attempt, raised>>
    /\ UNCHANGED <<uploadVars, retryVars>>

\* one iteration whose add_slide raises: the except block adds the basic slide
CreateSlideDegraded ==
    /\ pc = "slides"
    /\ Len(deck) < Len(slide_structure)
    /\ deck' = Append(deck,
                      CreateBasicSlide(tpl.layouts,
                                       slide_structure[Len(deck) + 1],
                                       manifest, Len(deck)))
    /\ UNCHANGED <<pc, tpl, raw, attempt, assisted, manifest, slide_structure, content_attempt, raised>>
    /\ UNCHANGED <<uploadVars, retryVars>>

\* add_slide raises in the except block too: the error leaves the loop and
\* generate_presentation_with_manifest re-raises it
CreateSlideFails ==
    /\ pc = "slides"
    /\ Len(deck) < Len(slide_structure)
    /\ pc' = "failed"
    /\ raised' = "SlideError"
    /\ UNCHANGED <<tpl, raw, attempt, assisted, manifest, slide_structure, deck, content_attempt>>
    /\ UNCHANGED <<uploadVars, retryVars>>

\* the loop is over: return prs
ReturnPresentation ==
    /\ pc = "slides"
    /\ Len(deck) = Len(slide_structure)
    /\ pc' = "done"
    /\ UNCHANGED <<tpl, raw, attempt, assisted, manifest, slide_structure, deck, content_attempt, raised>>
    /\ UNCHANGED <<uploadVars, retryVars>>

Next ==
    \/ Extract
    \/ ManifestCallReturns
    \/ ManifestCallRetried
    \/ ManifestCallGivesUp
    \/ StructureText
    \/ ContentCallRetried
    \/ ContentCallGivesUp
    \/ LoadTemplate
    \/ LoadTemplateFails
    \/ CreateSlide
    \/ CreateSlideDegraded
    \/ CreateSlideFails
    \/ ReturnPresentation

Spec == Init /\ [][Next]_vars

\* ---------------------------------------- the resolver on all its inputs

\* archetypes of the manifests the resolver is applied to: the schema's five
\* and one outside the schema whose lower-cased name contains "content"
ResolverArchetypes == Archetypes \cup {"Content_Caption"}

ResolverManifests(raw_data) ==
    {NormalizedManifest(raw_data, a, "all") :
        a \in ArchetypeAssignments(raw_data, ResolverArchetypes)}
    \cup {CreateFallbackManifest(raw_data),
          [ReferenceManifest(raw_data) EXCEPT !.layouts = <<>>]}

\* a loaded template, any manifest for it and one block to synthesize
InitResolver ==
    /\ pc = "slides"
    /\ tpl \in Templates
    /\ raw = ExtractRawTemplateData(tpl)
    /\ attempt = 0
    /\ assisted = NoManifest
    /\ manifest \in ResolverManifests(ExtractRawTemplateData(tpl))
    /\ slide_structure \in {<<b>> : b \in AllBlocks}
    /\ deck = <<>>
    /\ content_attempt = 0
    /\ raised = NoneValue
    /\ NoUploads
    /\ NoRetry

NextResolver ==
    \/ CreateSlide
    \/ CreateSlideDegraded
    \/ ReturnPresentation

SpecResolver == InitResolver /\ [][NextResolver]_vars

\* ------------------------------------------- retry handler: execute

\* no build is running beside the retry handler's objects
NoBuild ==
    /\ pc = "idle"
    /\ tpl = TplSingle
    /\ raw = NoManifest
    /\ attempt = 0
    /\ assisted = NoManifest
    /\ manifest = NoManifest
    /\ slide_structure = <<>>
    /\ deck = <<>>
    /\ content_attempt = 0
    /\ raised = NoneValue

UpperLetters ==
    <<"A", "B", "C", "D", "E", "F", "G", "H", "I", "J", "K", "L", "M", "N", "O", "P", "Q", "R", "S", "T", "U", "V", "W", "X", "Y", "Z">>

LowerLetters ==
    <<"a", "b", "c", "d", "e", "f", "g", "h", "i", "j", "k", "l", "m", "n", "o", "p", "q", "r", "s", "t", "u", "v", "w", "x", "y", "z">>

\* str.lower()
Lower(chars) ==
    [k \in 1..Len(chars) |->
        IF \E n \in 1..26 : UpperLetters[n] = chars[k]
        THEN LowerLetters[CHOOSE n \in 1..26 : UpperLetters[n] = chars[k]]
        ELSE chars[k]]

\* sub in chars
Contains(chars, sub) ==
    \E k \in 0..(Len(chars) - Len(sub)) : SubSeq(chars, k + 1, k + Len(sub)) = sub

\* retryable_conditions of is_retryable_error
RetryableConditions ==
    {<<"t", "i", "m", "e", "o", "u", "t">>,
     <<"c", "o", "n", "n", "e", "c", "t", "i", "o", "n">>,
     <<"n", "e", "t", "w", "o", "r", "k">>,
     <<"t", "e", "m", "p", "o", "r", "a", "r", "y">>,
     <<"r", "a", "t", "e", " ", "l", "i", "m", "i", "t">>,
     <<"s", "e", "r", "v", "e", "r", " ", "e", "r", "r", "o", "r">>,
     <<"5", "0", "3">>,
     <<"5", "0", "2">>,
     <<"5", "0", "4">>,
     <<"i", "n", "t", "e", "r", "n", "a", "l", " ", "s", "e", "r", "v", "e", "r", " ", "e", "r", "r", "o", "r">>,
     <<"s", "e", "r", "v", "i", "c", "e", " ", "u", "n", "a", "v", "a", "i", "l", "a", "b", "l", "e">>,
     <<"t", "o", "o", " ", "m", "a", "n", "y", " ", "r", "e", "q", "u", "e", "s", "t", "s">>}

\* the built-in classes an exception class is an instance of
ExceptionBases(class) ==
    CASE class = "TimeoutError" -> {"TimeoutError", "OSError", "Exception"}
      [] class = "ConnectionResetError" ->
            {"ConnectionResetError", "ConnectionError", "OSError", "Exception"}
      [] OTHER -> {class, "Exception"}

\* RetryConfig.retryable_errors: the list given, or the default for None
\* and for an empty list
RetryableErrorsOf(given) ==
    IF given = <<>> THEN <<"ConnectionError", "TimeoutError", "Exception">>
    ELSE given

\* any(condition in error_message for condition in retryable_conditions)
HasRetryableCondition(failure) ==
    \E condition \in RetryableConditions : Contains(Lower(failure.message), condition)

\* any(isinstance(error, error_type) for error_type in config.retryable_errors)
IsInstanceOfRetryable(failure, config) ==
    \E k \in 1..Len(config.retryable_errors) :
        config.retryable_errors[k] \in ExceptionBases(failure.class)

\* a check that lets every error be retried
RetryEveryError(failure, config) == TRUE

is_retryable_error(failure, config) ==
    HasRetryableCondition(failure) \/ IsInstanceOfRetryable(failure, config)

\* largest max_retries of the configurations
MaxRetries == 2

RetryConfig(retries, given) ==
    [max_retries |-> retries, retryable_errors |-> RetryableErrorsOf(given)]

OperationConfigs ==
    {RetryConfig(n, given) : n \in 0..MaxRetries,
                             given \in {<<>>, <<"ConnectionError">>}}

\* what the wrapped function can raise
FunctionErrors ==
    {[class |-> "TimeoutError", message |-> <<"R", "e", "q", "u", "e", "s", "t", " ", "t", "i", "m", "e", "d", " ", "o", "u", "t">>],
     [class |-> "ValueError", message |-> <<"R", "a", "t", "e", " ", "L", "i", "m", "i", "t", " ", "h", "i", "t">>],
     [class |-> "ValueError", message |-> <<"N", "o", " ", "v", "a", "l", "i", "d", " ", "J", "S", "O", "N">>],
     [class |-> "ConnectionResetError", message |-> <<"r", "e", "s", "e", "t", " ", "b", "y", " ", "p", "e", "e", "r">>]}

\* what the wrapped function can return
FunctionResults == {"first", "second"}

NoError == [class |-> NoneValue, message |-> <<>>]

ReturnedValue(value) == [ok |-> TRUE, value |-> value, error |-> NoError]

RaisedError(failure) == [ok |-> FALSE, value |-> NoneValue, error |-> failure]

\* RetryableOperation(name, config) about to run the first attempt of
\* execute(func): attempt is the loop variable, outcomes the calls of func
InitRetry ==
    /\ NoBuild
    /\ NoUploads
    /\ cb = NoBreaker
    /\ \E config \in OperationConfigs :
          op = [status |-> "running", config |-> config, attempt |-> 0,
                outcomes |-> <<>>, result |-> NoneValue,
                last_exception |-> NoError]

\* func returns: execute returns the result
AttemptReturns ==
    /\ op.status = "running"
    /\ op.attempt \in 0..op.config.max_retries
    /\ \E value \in FunctionResults :
          op' = [op EXCEPT !.outcomes = Append(@, ReturnedValue(value)),
                           !.result = value, !.status = "returned"]
    /\ UNCHANGED <<buildVars, uploadVars, cb>>

\* func raises on the last attempt: break, raise last_exception
AttemptRaisesLast ==
    /\ op.status = "running"
    /\ op.attempt = op.config.max_retries
    /\ \E failure \in FunctionErrors :
          op' = [op EXCEPT !.outcomes = Append(@, RaisedError(failure)),
                           !.last_exception = failure, !.status = "raised"]
    /\ UNCHANGED <<buildVars, uploadVars, cb>>

\* func raises an error that is not retryable: break, raise last_exception
AttemptRaisesNonRetryable ==
    /\ op.status = "running"
    /\ op.attempt \in 0..(op.config.max_retries - 1)
    /\ \E failure \in FunctionErrors :
          /\ ~is_retryable_error(failure, op.config)
          /\ op' = [op EXCEPT !.outcomes = Append(@, RaisedError(failure)),
                              !.last_exception = failure, !.status = "raised"]
    /\ UNCHANGED <<buildVars, uploadVars, cb>>

\* func raises a retryable error before the last attempt: sleep, next
\* iteration of the loop
AttemptRaisesRetried ==
    /\ op.status = "running"
    /\ op.attempt \in 0..(op.config.max_retries - 1)
    /\ \E failure \in FunctionErrors :
          /\ is_retryable_error(failure, op.config)
          /\ op' = [op EXCEPT !.outcomes = Append(@, RaisedError(failure)),
                              !.last_exception = failure,
                              !.attempt = @ + 1]
    /\ UNCHANGED <<buildVars, uploadVars, cb>>

NextRetry ==
    \/ AttemptReturns
    \/ AttemptRaisesLast
    \/ AttemptRaisesNonRetryable
    \/ AttemptRaisesRetried

\* func and time.sleep return: the loop goes on while an attempt is due
SpecRetry == InitRetry /\ [][NextRetry]_vars /\ WF_vars(NextRetry)

\* ------------------------------------- retry handler: circuit breaker

\* latest time.time() of the runs, in ticks; the first call happens at 1
MaxTime == 5

\* most calls of the wrapped function's wrapper in a run
MaxCalls == 4

\* failure_threshold and recovery_timeout (ticks) of the breakers
BreakerThresholds == {1, 2}

BreakerTimeout == 1

\* CircuitBreaker(failure_threshold, recovery_timeout): last_failure_time 0
\* is None; now is the clock, wrapper where a call of the wrapper stands,
\* results what the calls of the wrapper did so far
NewBreaker(threshold, timeout) ==
    [failure_threshold |-> threshold, recovery_timeout |-> timeout,
     failure_count |-> 0, last_failure_time |-> 0, state |-> "CLOSED",
     now |-> 1, wrapper |-> "idle", results |-> <<>>]

\* time.time() - self.last_failure_time > self.recovery_timeout
RecoveryElapsed(b) ==
    b.last_failure_time # 0 /\ b.now - b.last_failure_time > b.recovery_timeout

\* the value is_available returns
is_available(b) ==
    \/ b.state = "CLOSED"
    \/ b.state = "OPEN" /\ RecoveryElapsed(b)
    \/ b.state = "HALF_OPEN"

\* the breaker after is_available
AfterAvailabilityCheck(b) ==
    IF b.state = "OPEN" /\ RecoveryElapsed(b)
    THEN [b EXCEPT !.state = "HALF_OPEN"] ELSE b

\* a record_success that closes the breaker and keeps the failure count
CloseKeepingCount(b) ==
    IF b.state = "HALF_OPEN" THEN [b EXCEPT !.state = "CLOSED"] ELSE b

record_success(b) ==
    IF b.state = "HALF_OPEN"
    THEN [b EXCEPT !.state = "CLOSED", !.failure_count = 0]
    ELSE b

record_failure(b) ==
    LET counted == [b EXCEPT !.failure_count = @ + 1, !.last_failure_time = b.now]
    IN IF counted.failure_count >= counted.failure_threshold
          /\ counted.state = "CLOSED"
       THEN [counted EXCEPT !.state = "OPEN"]
       ELSE IF counted.state = "HALF_OPEN"
       THEN [counted EXCEPT !.state = "OPEN"]
       ELSE counted

InitBreaker ==
    /\ NoBuild
    /\ NoUploads
    /\ op = NoOperation
    /\ \E threshold \in BreakerThresholds :
          cb = NewBreaker(threshold, BreakerTimeout)

\* wrapper: is_available() is False, the exception is raised and func not
\* called
CallRejected ==
    /\ cb.wrapper = "idle"
    /\ Len(cb.results) < MaxCalls
    /\ ~is_available(cb)
    /\ cb' = [AfterAvailabilityCheck(cb) EXCEPT !.results = Append(@, "rejected")]
    /\ UNCHANGED <<buildVars, uploadVars, op>>

\* wrapper: is_available() is True, func is called
CallAdmitted ==
    /\ cb.wrapper = "idle"
    /\ Len(cb.results) < MaxCalls
    /\ is_available(cb)
    /\ cb' = [AfterAvailabilityCheck(cb) EXCEPT !.wrapper = "invoking"]
    /\ UNCHANGED <<buildVars, uploadVars, op>>

\* func returns: record_success(), return result
FunctionReturns ==
    /\ cb.wrapper = "invoking"
    /\ cb' = [record_success(cb) EXCEPT !.wrapper = "idle",
                                        !.results = Append(@, "returned")]
    /\ UNCHANGED <<buildVars, uploadVars, op>>

\* func raises: record_failure(), raise e
FunctionRaises ==
    /\ cb.wrapper = "invoking"
    /\ cb' = [record_failure(cb) EXCEPT !.wrapper = "idle",
                                        !.results = Append(@, "raised")]
    /\ UNCHANGED <<buildVars, uploadVars, op>>

\* time.time() grows
TimePasses ==
    /\ cb.now < MaxTime
    /\ cb' = [cb EXCEPT !.now = @ + 1]
    /\ UNCHANGED <<buildVars, uploadVars, op>>

NextBreaker ==
    \/ CallRejected
    \/ CallAdmitted
    \/ FunctionReturns
    \/ FunctionRaises
    \/ TimePasses

SpecBreaker == InitBreaker /\ [][NextBreaker]_vars

\* ------------------------------------ the extractor on layouts of all sorts

ExtractPlaceholderPool ==
    {Ph(1, 0, 10, 5, 100, 20), Ph(2, 1, 10, 30, 100, 60),
     Ph(PH_INVALID, 2, 10, 95, 100, 10), PhBare(7, 3)}

MaxPlaceholders == 3

\* one-layout templates over the pool
ExtractTemplates ==
    {[TplSingle EXCEPT !.layouts = << [name |-> "Layout", placeholders |-> phs] >>] :
        phs \in UNION {[1..n -> ExtractPlaceholderPool] : n \in 0..MaxPlaceholders}}

InitExtract ==
    /\ pc = "extract"
    /\ tpl \in ExtractTemplates
    /\ raw = NoManifest
    /\ attempt = 0
    /\ assisted = NoManifest
    /\ manifest = NoManifest
    /\ slide_structure = <<>>
    /\ deck = <<>>
    /\ content_attempt = 0
    /\ raised = NoneValue
    /\ NoUploads
    /\ NoRetry

NextExtract == Extract

SpecExtract == InitExtract /\ [][NextExtract]_vars

\* ---------------------------------- the styling on rule sets and palettes

\* values of theme.palette.primary a manifest can carry
StylingColors ==
    {Str(<<"#", "1", "1", "2", "2", "3", "3">>),
     Str(<<"A", "a", "0", "0", "f", "F">>),
     Str(<<"#", "1", "2", "3", "4", "5">>),
     Str(<<"#", "g", "g", "0", "0", "0", "0">>),
     Str(<<"+", "1", "+", "2", "+", "3">>),
     Str(<<"-", "1", "0", "0", "0", "0">>),
     Num(1)}

StylingSizes == {Num(30), Num(0), Str(<<"l", "a", "r", "g", "e">>)}

\* colour keys of a rule set: a string slot, the list slot, a key the
\* palette lacks, and no colour key
StylingColorKeys == {"primary", "accent", "link", NoneValue}

StylingRules ==
    {[family |-> "Arial", size_pt |-> size, bold |-> bold, color |-> key] :
        size \in StylingSizes, bold \in BOOLEAN, key \in StylingColorKeys}

\* the reference manifest with one rule set for title and body and one
\* value of the primary slot
StylingManifests(raw_data) ==
    {[ReferenceManifest(raw_data) EXCEPT
          !.text_defaults = [title |-> rules, body |-> << rules >>],
          !.theme.palette.primary = color] :
        rules \in StylingRules, color \in StylingColors}

StylingTemplates == {TplSingle, TplCustom, TplBodyOnly}

InitStyling ==
    /\ pc = "slides"
    /\ tpl \in StylingTemplates
    /\ raw = ExtractRawTemplateData(tpl)
    /\ attempt = 0
    /\ assisted = NoManifest
    /\ manifest \in StylingManifests(ExtractRawTemplateData(tpl))
    /\ slide_structure \in {<<b>> : b \in AllBlocks}
    /\ deck = <<>>
    /\ content_attempt = 0
    /\ raised = NoneValue
    /\ NoUploads
    /\ NoRetry

SpecStyling == InitStyling /\ [][NextResolver]_vars

\* ------------------------------------ concurrent requests, upload folder

\* int(time.time()) of the latest instant of the runs
MaxClock == 1

Requests == {1, 2}

Endpoints == {"generate-presentation", "generate-presentation-with-preview"}

\* template_file.filename as sent by the client: a directory part and a name
UploadFilenames ==
    {[dir |-> "", stem |-> "deck"], [dir |-> "../", stem |-> "deck"],
     [dir |-> "", stem |-> "brand"]}

\* secure_filename(template_file.filename): the directory part is dropped
SecureFilename(filename) == filename.stem

\* os.path.join(UPLOAD_FOLDER, template_filename)
TemplatePath(filename) ==
    [folder |-> "uploads", stem |-> SecureFilename(filename), stamp |-> -1]

\* os.path.join(UPLOAD_FOLDER, output_filename) with the endpoint's
\* f'generated_presentation_{timestamp}.pptx', f'single_slide_test_{timestamp}.pptx'
\* or f'presentation_{timestamp}.pptx'
OutputPath(endpoint, timestamp) ==
    [folder |-> "uploads",
     stem |-> IF endpoint = "generate-presentation"
              THEN "generated_presentation"
              ELSE IF endpoint = "test-single-slide" THEN "single_slide_test"
              ELSE "presentation",
     stamp |-> timestamp]

Exists(fs, path) == path \in DOMAIN fs

WriteFile(fs, path, content) ==
    [q \in (DOMAIN fs) \cup {path} |-> IF q = path THEN content ELSE fs[q]]

RemoveFile(fs, path) == [q \in (DOMAIN fs) \ {path} |-> fs[q]]

\* the request that wrote the content of a file, 0 when there is no file
Writer(fs, path) == IF Exists(fs, path) THEN fs[path].by ELSE 0

\* no file content: written by no request
NoContent == [by |-> 0, template |-> 0]

\* no path
NoPath == [folder |-> "", stem |-> "", stamp |-> -1]

\* a request before its handler runs
NewRequest(endpoint, filename) ==
    [endpoint |-> endpoint, filename |-> filename, rpc |-> "received",
     replaced |-> 0, extracted |-> 0, loaded |-> 0, output |-> NoPath,
     sent |-> NoContent, removed |-> 0]

InitUploads ==
    /\ pc = "idle"
    /\ tpl = TplSingle
    /\ raw = NoManifest
    /\ attempt = 0
    /\ assisted = NoManifest
    /\ manifest = NoManifest
    /\ slide_structure = <<>>
    /\ deck = <<>>
    /\ content_attempt = 0
    /\ raised = NoneValue
    /\ files = << >>
    /\ reqs \in [Requests -> {NewRequest(e, f) : e \in Endpoints, f \in UploadFilenames}]
    /\ clock = 0
    /\ NoRetry

\* template_file.save(template_path)
SaveTemplate(r) ==
    /\ reqs[r].rpc = "received"
    /\ files' = WriteFile(files, TemplatePath(reqs[r].filename),
                          [by |-> r, template |-> r])
    /\ reqs' = [reqs EXCEPT ![r].rpc = "saved",
                            ![r].replaced = Writer(files, TemplatePath(reqs[r].filename))]
    /\ UNCHANGED clock

\* extract_raw_template_data(template_path): reads the file at the path, or
\* returns the default raw data when it cannot be opened
ExtractUpload(r) ==
    /\ reqs[r].rpc = "saved"
    /\ reqs' = [reqs EXCEPT ![r].rpc = "extracted",
                            ![r].extracted = Writer(files, TemplatePath(reqs[r].filename))]
    /\ UNCHANGED <<files, clock>>

\* generate_presentation_with_manifest(.., template_path, ..): reads the file
\* at the path again
LoadUpload(r) ==
    /\ reqs[r].rpc = "extracted"
    /\ reqs[r].endpoint # "generate-manifest"
    /\ Exists(files, TemplatePath(reqs[r].filename))
    /\ reqs' = [reqs EXCEPT ![r].rpc = "generated",
                            ![r].loaded = files[TemplatePath(reqs[r].filename)].template]
    /\ UNCHANGED <<files, clock>>

\* the file is gone: Presentation(template_path) raises, the handler goes to
\* its finally clause and answers 500
LoadUploadFails(r) ==
    /\ reqs[r].rpc = "extracted"
    /\ reqs[r].endpoint # "generate-manifest"
    /\ ~Exists(files, TemplatePath(reqs[r].filename))
    /\ reqs' = [reqs EXCEPT ![r].rpc = "raising"]
    /\ UNCHANGED <<files, clock>>

\* timestamp = int(time.time()); prs.save(output_path)
SaveOutput(r) ==
    /\ reqs[r].rpc = "generated"
    /\ files' = WriteFile(files, OutputPath(reqs[r].endpoint, clock),
                          [by |-> r, template |-> reqs[r].loaded])
    /\ reqs' = [reqs EXCEPT ![r].rpc = "written",
                            ![r].output = OutputPath(reqs[r].endpoint, clock),
                            ![r].replaced =
                                IF Writer(files, OutputPath(reqs[r].endpoint, clock)) # 0
                                THEN Writer(files, OutputPath(reqs[r].endpoint, clock))
                                ELSE reqs[r].replaced]
    /\ UNCHANGED clock

\* send_file(output_path), or the later GET of the download_url of the
\* preview answer: the file at the output path is what the client receives
SendOutput(r) ==
    /\ reqs[r].rpc = "written"
    /\ reqs' = [reqs EXCEPT ![r].rpc = "answered",
                            ![r].sent = files[reqs[r].output]]
    /\ UNCHANGED <<files, clock>>

\* a handler that answers without its finally clause
AnswerWithoutRemoving(r) ==
    /\ reqs[r].rpc \in {"answered", "raising"}
    /\ reqs' = [reqs EXCEPT ![r].rpc = IF reqs[r].rpc = "raising"
                                       THEN "error 500" ELSE "done"]
    /\ UNCHANGED <<files, clock>>

\* finally: if os.path.exists(template_path): os.remove(template_path)
RemoveTemplate(r) ==
    /\ reqs[r].rpc \in {"answered", "raising"}
    /\ files' = RemoveFile(files, TemplatePath(reqs[r].filename))
    /\ reqs' = [reqs EXCEPT ![r].rpc = IF reqs[r].rpc = "raising"
                                       THEN "error 500" ELSE "done",
                            ![r].removed = Writer(files, TemplatePath(reqs[r].filename))]
    /\ UNCHANGED clock

\* a second passes
Tick ==
    /\ clock < MaxClock
    /\ clock' = clock + 1
    /\ UNCHANGED <<files, reqs>>

NextUploads ==
    \/ \E r \in Requests : SaveTemplate(r) /\ UNCHANGED <<buildVars, retryVars>>
    \/ \E r \in Requests : ExtractUpload(r) /\ UNCHANGED <<buildVars, retryVars>>
    \/ \E r \in Requests : LoadUpload(r) /\ UNCHANGED <<buildVars, retryVars>>
    \/ \E r \in Requests : LoadUploadFails(r) /\ UNCHANGED <<buildVars, retryVars>>
    \/ \E r \in Requests : SaveOutput(r) /\ UNCHANGED <<buildVars, retryVars>>
    \/ \E r \in Requests : SendOutput(r) /\ UNCHANGED <<buildVars, retryVars>>
    \/ \E r \in Requests : RemoveTemplate(r) /\ UNCHANGED <<buildVars, retryVars>>
    \/ Tick /\ UNCHANGED <<buildVars, retryVars>>

SpecUploads == InitUploads /\ [][NextUploads]_vars

\* ------------------------------------- every handler that saves an upload

\* the endpoints named by the cleanup rule
CleanupEndpoints ==
    Endpoints \cup {"generate-manifest", "test-single-slide"}

InitCleanup ==
    /\ NoBuild
    /\ files = << >>
    /\ reqs \in [Requests ->
                    {NewRequest(e, f) : e \in CleanupEndpoints, f \in UploadFilenames}]
    /\ clock = 0
    /\ NoRetry

\* generate_manifest: return jsonify(..) inside the try, after the manifest
AnswerManifest(r) ==
    /\ reqs[r].rpc = "extracted"
    /\ reqs[r].endpoint = "generate-manifest"
    /\ reqs' = [reqs EXCEPT ![r].rpc = "answered"]
    /\ UNCHANGED <<files, clock>>

\* test_single_slide_api: the content call returned no slides, return
\* jsonify(..), 500 inside the try
AnswerNoSlides(r) ==
    /\ reqs[r].rpc = "saved"
    /\ reqs[r].endpoint = "test-single-slide"
    /\ reqs' = [reqs EXCEPT ![r].rpc = "answered"]
    /\ UNCHANGED <<files, clock>>

\* a statement of the try body raises (the content call, the manifest
\* builder, the build, prs.save, send_file): on to the finally clause
HandlerRaises(r) ==
    /\ reqs[r].rpc \in {"saved", "extracted", "generated", "written"}
    /\ reqs' = [reqs EXCEPT ![r].rpc = "raising"]
    /\ UNCHANGED <<files, clock>>

NextCleanup ==
    \/ \E r \in Requests : SaveTemplate(r) /\ UNCHANGED <<buildVars, retryVars>>
    \/ \E r \in Requests : ExtractUpload(r) /\ UNCHANGED <<buildVars, retryVars>>
    \/ \E r \in Requests : AnswerManifest(r) /\ UNCHANGED <<buildVars, retryVars>>
    \/ \E r \in Requests : AnswerNoSlides(r) /\ UNCHANGED <<buildVars, retryVars>>
    \/ \E r \in Requests : LoadUpload(r) /\ UNCHANGED <<buildVars, retryVars>>
    \/ \E r \in Requests : LoadUploadFails(r) /\ UNCHANGED <<buildVars, retryVars>>
    \/ \E r \in Requests : SaveOutput(r) /\ UNCHANGED <<buildVars, retryVars>>
    \/ \E r \in Requests : SendOutput(r) /\ UNCHANGED <<buildVars, retryVars>>
    \/ \E r \in Requests : HandlerRaises(r) /\ UNCHANGED <<buildVars, retryVars>>
    \/ \E r \in Requests : RemoveTemplate(r) /\ UNCHANGED <<buildVars, retryVars>>
    \/ Tick /\ UNCHANGED <<buildVars, retryVars>>

SpecCleanup == InitCleanup /\ [][NextCleanup]_vars

\* ----------------------------------------------------------------- claims

\* generate_template_manifest has returned
Built == pc \notin {"extract", "manifest"}

HasRequiredKeys(m) == RequiredKeys \subseteq DOMAIN m

\* the Manifest schema of the data model
SchemaValid(m) ==
    /\ HasRequiredKeys(m)
    /\ \A i \in 1..Len(m.layouts) :
          /\ {"id", "name", "archetype", "placeholders"} \subseteq DOMAIN m.layouts[i]
          /\ m.layouts[i].archetype \in Archetypes
          /\ \A k \in 1..Len(m.layouts[i].placeholders) :
                m.layouts[i].placeholders[k].kind \in PlaceholderKinds
    /\ \A i \in 1..Len(m.assets) :
          /\ "apply_on" \in DOMAIN m.assets[i]
          /\ m.assets[i].apply_on \in ApplyPolicies

SameGeometry(p, q) ==
    /\ p.left = q.left
    /\ p.top = q.top
    /\ p.width = q.width
    /\ p.height = q.height

\* the slides the try block of _create_slide_with_manifest produced
StyledSlides == {i \in 1..Len(deck) : deck[i].styled}

ManifestLayouts == Get(manifest, "layouts", <<>>)

ArchetypeOf(l) == Get(l, "archetype", NoneValue)

\* non-empty content: a non-blank string or a list with items
NonEmptyContent(b) ==
    IF b.content.is_list THEN b.content.items # <<>>
    ELSE Strip(b.content.text) # <<>>

\* C1: a candidate lacking one of the six required top-level keys is never
\* returned by generate_template_manifest: the full fallback manifest is
\* returned instead, with rules.title_color = "primary".
C1_InvalidCandidateReplaced ==
    (Built /\ assisted # NoManifest /\ ~HasRequiredKeys(assisted))
        => /\ manifest # assisted
           /\ manifest = CreateFallbackManifest(raw)
           /\ manifest.rules.title_color = "primary"

\* C2: whenever the fallback constructor supplied the manifest (no assisted
\* result was returned), the manifest is schema-valid: six top-level keys,
\* id/name/archetype/placeholders per layout with archetype and kinds in the
\* schema's sets, apply_on of every asset in {all, title_only, none}.
C2_FallbackSchemaValid ==
    (Built /\ assisted = NoManifest) => SchemaValid(manifest)

\* C3: in every manifest generate_template_manifest returns, slide_size and
\* the left/top/width/height of each placeholder of each layout present in
\* both the raw data and the manifest equal the raw values.
C3_GeometryPreserved ==
    Built =>
        /\ "slide_size" \in DOMAIN manifest
        /\ manifest.slide_size = raw.slide_size
        /\ \A i \in 1..Min(Len(raw.layouts), Len(ManifestLayouts)) :
              ManifestLayouts[i].name = raw.layouts[i].name
                  => \A k \in 1..Min(Len(raw.layouts[i].placeholders),
                                     Len(ManifestLayouts[i].placeholders)) :
                        SameGeometry(ManifestLayouts[i].placeholders[k],
                                     raw.layouts[i].placeholders[k])

\* C4: a block with non-empty content (string or list) is never given a
\* layout of archetype section_header when the manifest holds a layout whose
\* archetype contains "content", whatever the layout_hint.
C4_ContentNeverSectionHeader ==
    \A i \in StyledSlides :
        (/\ NonEmptyContent(slide_structure[i])
         /\ \E j \in 1..Len(ManifestLayouts) :
               ContainsContent(ArchetypeOf(ManifestLayouts[j])))
            => ArchetypeOf(ManifestLayouts[deck[i].layout]) # "section_header"

\* C5: with non-empty content and a title_content layout in the manifest the
\* resolver returns the layout named by the first title_content entry.
C5_TitleContentPreferred ==
    \A i \in StyledSlides :
        LET first == FirstLayoutDef(ManifestLayouts, {"title_content"})
        IN (NonEmptyContent(slide_structure[i]) /\ first # 0)
              => /\ deck[i].resolved # 0
                 /\ tpl.layouts[deck[i].resolved].name = ManifestLayouts[first].name

\* C6: with empty or blank content and a section_header or title_only layout
\* in the manifest the resolver returns the layout named by the first such
\* entry.
C6_SectionForEmptyContent ==
    \A i \in StyledSlides :
        LET first == FirstLayoutDef(ManifestLayouts, {"section_header", "title_only"})
        IN (~NonEmptyContent(slide_structure[i]) /\ first # 0)
              => /\ deck[i].resolved # 0
                 /\ tpl.layouts[deck[i].resolved].name = ManifestLayouts[first].name

\* C7: the resolver returns None only when the manifest's layouts list is
\* empty, for string and for list content alike.
C7_NoneOnlyWithoutLayouts ==
    \A i \in StyledSlides :
        ManifestLayouts # <<>> => deck[i].resolved # 0

\* C8: two resolutions of equal blocks against the same manifest and
\* document return the same layout, at whatever slide index and after
\* whatever earlier blocks they happen.
C8_ResolverDeterministic ==
    \A i, j \in 1..Len(deck) :
        slide_structure[i] = slide_structure[j]
            => deck[i].resolved = deck[j].resolved

\* C8 witness: one block resolved to a layout at two slide indexes, the
\* second time after another resolution.
C8_Witness ==
    /\ Len(deck) >= 2
    /\ slide_structure[1] = slide_structure[2]
    /\ deck[1].resolved # 0
    /\ deck[2].resolved = deck[1].resolved
    /\ deck[2].src # deck[1].src

\* C9: on a styled slide holding a BODY placeholder the body shape is the
\* first BODY placeholder in shape order.
C9_BodyPlaceholderPreferred ==
    \A i \in StyledSlides :
        LET shapes == deck[i].shapes
            bodies == {k \in 1..Len(shapes) : shapes[k].type = PH_BODY}
        IN bodies # {}
              => /\ deck[i].body \in bodies
                 /\ \A k \in bodies : deck[i].body <= k

\* C9 witness: the BODY placeholder was chosen although another non-title
\* placeholder precedes it in shape order and in placeholder order.
C9_Witness ==
    \E i \in StyledSlides :
        LET shapes == deck[i].shapes
        IN /\ deck[i].body > 2
           /\ shapes[deck[i].body].type = PH_BODY
           /\ shapes[2].type \notin {PH_TITLE, PH_BODY}
           /\ shapes[2].idx < shapes[deck[i].body].idx
           /\ shapes[deck[i].body].text = BodyText(slide_structure[i])

\* C10: every slide in the deck has a body shape whose text is not blank.
C10_BodyNeverBlank ==
    \A i \in 1..Len(deck) :
        /\ deck[i].body # 0
        /\ ~IsBlankText(deck[i].shapes[deck[i].body].text)

\* the assets of the manifest the slides are built with
ManifestAssets == Get(manifest, "assets", <<>>)

\* asset a of the manifest was applied to slide i of the deck
Applied(a, i) ==
    \E k \in 1..Len(deck[i].assets) : deck[i].assets[k] = ManifestAssets[a].id

Returned == pc = "done"

\* the text of the title shape of a slide shows the title of the block
BuiltFrom(slide, block) ==
    TitleShape(slide.shapes) # 0
        => slide.shapes[TitleShape(slide.shapes)].text = block.title

\* C12: when generate_presentation_with_manifest returns, the deck holds one
\* slide per ContentBlock and no other: the i-th slide was built from the
\* i-th block, whether by the try block or by the except block.
C12_OneSlidePerBlockInOrder ==
    Returned =>
        /\ Len(deck) = Len(slide_structure)
        /\ \A i \in 1..Len(deck) :
              /\ deck[i].src = i - 1
              /\ BuiltFrom(deck[i], slide_structure[i])

\* C12 witness: a returned deck of two different blocks over a template that
\* shipped slides of its own, one of them built by the except block.
C12_Witness ==
    /\ Returned
    /\ tpl.slides # <<>>
    /\ Len(deck) = 2
    /\ slide_structure[1].title # slide_structure[2].title
    /\ ~deck[1].styled
    /\ deck[2].styled
    /\ deck[2].shapes[TitleShape(deck[2].shapes)].text = slide_structure[2].title

\* every shape but the title shape of a slide is empty
TitleOnly(slide) ==
    \A k \in 1..Len(slide.shapes) :
        k # TitleShape(slide.shapes) => slide.shapes[k].text = <<>>

\* C13: a failure while one block is processed never aborts
\* generate_presentation_with_manifest: no error of slide creation leaves
\* the loop, the block gets a substitute slide with the title only, and the
\* blocks after it are still processed.
C13_SlideFailureNeverAborts ==
    /\ raised # "SlideError"
    /\ \A i \in 1..Len(deck) : ~deck[i].styled => TitleOnly(deck[i])

\* C14: of two requests served concurrently, whatever their upload
\* filenames and timing, neither reads, overwrites or removes a template or
\* deck file written by the other, and the deck each client receives was
\* written by its own build from its own template.
C14_BuildsShareNoFile ==
    \A r \in DOMAIN reqs :
        /\ reqs[r].replaced \in {0, r}
        /\ reqs[r].extracted \in {0, r}
        /\ reqs[r].loaded \in {0, r}
        /\ reqs[r].removed \in {0, r}
        /\ reqs[r].sent.by \in {0, r}
        /\ reqs[r].sent.template \in {0, r}
        /\ reqs[r].rpc \notin {"raising", "error 500"}

\* C15: an unreadable template package is fatal: the extractor returns no
\* RawTemplateData for it and the build never reaches the manifest builder
\* or the content generator.
C15_UnreadablePackageIsFatal ==
    ~Readable(tpl) =>
        /\ raw = NoManifest
        /\ pc \in {"extract", "failed"}

\* the ten colour slots of the data model, by index 0..9
SlotNames ==
    <<"bg1", "text1", "bg2", "text2", "accent1", "accent2", "accent3",
      "accent4", "accent5", "accent6">>

\* C16: the keys of theme.colors are among the ten slot names: index j in
\* 0..9 is stored under the j-th slot name and an index outside 0..9 adds no
\* entry.
C16_ColorSlotsCanonical ==
    (raw # NoManifest /\ Readable(tpl)) =>
        /\ DOMAIN raw.theme.colors \subseteq {SlotNames[k] : k \in 1..10}
        /\ \A j \in ReadableColors(tpl) :
              j <= 9 => raw.theme.colors[SlotNames[j + 1]] = ColorHex(tpl.colors[j + 1])

\* C17: when the remote call of the content generator has failed on every
\* attempt, structure_text_to_slides raises nothing: its caller receives the
\* locally computed chunked structure and the build goes on.
C17_ContentFailureGivesFallback ==
    raised # "LLMError"

\* C18: generate_template_manifest makes at most max_retries + 1 = 3
\* attempts; when none of them returned a parsed result it returns the
\* fallback manifest, and no failure of the build happens before it has
\* returned a manifest.
C18_ManifestFailureNeverSurfaced ==
    /\ attempt + 1 <= 3
    /\ (Built /\ assisted = NoManifest) => manifest = CreateFallbackManifest(raw)
    /\ pc = "failed" => (Built /\ manifest # NoManifest)

\* C18 witness: the third attempt failed too, the fallback manifest was
\* returned and the build went on to the content generator and beyond.
C18_Witness ==
    /\ pc = "slides"
    /\ attempt + 1 = 3
    /\ assisted = NoManifest
    /\ manifest = CreateFallbackManifest(raw)
    /\ raised = NoneValue

\* C19: the layouts of the fallback manifest are the raw layouts in order,
\* names and placeholders unchanged, each with archetype "other"; its assets
\* are the raw images.
C19_FallbackLayoutsOther ==
    (Built /\ assisted = NoManifest) =>
        /\ Len(manifest.layouts) = Len(raw.layouts)
        /\ \A i \in 1..Len(raw.layouts) :
              /\ manifest.layouts[i].name = raw.layouts[i].name
              /\ manifest.layouts[i].placeholders = raw.layouts[i].placeholders
              /\ ArchetypeOf(manifest.layouts[i]) = "other"
        /\ manifest.assets = raw.images

\* C20: with non-empty content, no layout whose archetype contains
\* "content" and a layout_hint other than "section", the resolver returns
\* the layout named by the first entry of a non-empty layouts list; and where
\* only the any-content rule matches, the layout named by the first entry
\* it matches.
C20_FallbackAndTieBreak ==
    \A i \in StyledSlides :
        LET block == slide_structure[i]
            any_content == FirstLayoutDef(ManifestLayouts, ContentArchetypes)
            preferred == FirstLayoutDef(ManifestLayouts, {"title_content", "two_content"})
        IN (NonEmptyContent(block) /\ ManifestLayouts # <<>>) =>
              /\ (any_content = 0 /\ block.layout_hint # "section")
                    => /\ deck[i].resolved # 0
                       /\ tpl.layouts[deck[i].resolved].name = ManifestLayouts[1].name
              /\ (any_content # 0 /\ preferred = 0)
                    => /\ deck[i].resolved # 0
                       /\ tpl.layouts[deck[i].resolved].name
                              = ManifestLayouts[any_content].name

\* the rule set of the title and of the body of the manifest in use
TitleRules == manifest.text_defaults.title

BodyRules == manifest.text_defaults.body[1]

Palette == manifest.theme.palette

\* six hexadecimal digits after an optional leading "#"
ValidHex(chars) ==
    LET digits == IF chars # <<>> /\ Head(chars) = "#" THEN Tail(chars) ELSE chars
    IN Len(digits) = 6 /\ \A k \in 1..6 : HexValue(digits[k]) # -1

\* the colour key of the rules is a palette slot holding a well-formed
\* hex string
ColorResolvable(rules) ==
    /\ rules.color \in DOMAIN Palette
    /\ IsStr(Palette[rules.color])
    /\ ValidHex(Palette[rules.color].str)

\* C21: on a styled slide whose body rules name a colour key that the
\* palette lacks, that maps to a non-string, or that maps to a string which
\* is not six hex digits, the body shape gets no colour and keeps the body
\* text written to it.
C21_UnresolvableColorSkipped ==
    \A i \in StyledSlides :
        (deck[i].body # 0 /\ BodyRules.color # NoneValue
            /\ ~ColorResolvable(BodyRules))
        => /\ deck[i].shapes[deck[i].body].font.rgb = <<>>
           /\ deck[i].shapes[deck[i].body].text = BodyText(slide_structure[i])

\* C21 counterexample: the primary slot holds "+1+2+3", which is not six
\* hex digits, and the body text was coloured (1, 2, 3).
C21_Counterexample ==
    \E i \in StyledSlides :
        /\ deck[i].body # 0
        /\ BodyRules.color = "primary"
        /\ Palette.primary = Str(<<"+", "1", "+", "2", "+", "3">>)
        /\ deck[i].shapes[deck[i].body].font.rgb = <<1, 2, 3>>

\* C22: on a styled slide every attribute of the body rules that can be
\* applied is applied to the body text, whatever happens to the others:
\* the family, a numeric size, bold, and a resolvable colour.
C22_OtherAttributesStillApplied ==
    \A i \in StyledSlides :
        deck[i].body # 0
        => LET font == deck[i].shapes[deck[i].body].font
           IN /\ font.name = BodyRules.family
              /\ (IsNum(BodyRules.size_pt) /\ BodyRules.size_pt.num # 0)
                    => font.size = BodyRules.size_pt.num * 12700
              /\ BodyRules.bold => font.bold
              /\ (BodyRules.color # NoneValue /\ ColorResolvable(BodyRules))
                    => font.rgb # <<>>

\* C22 counterexample: size_pt is the string "large"; the family was set,
\* while bold and the resolvable colour of the same rule set were not.
C22_Counterexample ==
    \E i \in StyledSlides :
        /\ deck[i].body # 0
        /\ BodyRules.size_pt = Str(<<"l", "a", "r", "g", "e">>)
        /\ BodyRules.bold
        /\ BodyRules.color = "primary"
        /\ ColorResolvable(BodyRules)
        /\ deck[i].shapes[deck[i].body].font.name = BodyRules.family
        /\ ~deck[i].shapes[deck[i].body].font.bold
        /\ deck[i].shapes[deck[i].body].font.rgb = <<>>

\* the raw data of the template was extracted
Extracted == pc # "extract" /\ Readable(tpl)

\* C23: after extraction every layout records as many placeholders as the
\* template layout holds, and a placeholder whose type cannot be read is
\* recorded at its position with its geometry and an empty kind.
C23_EveryPlaceholderRecorded ==
    Extracted =>
        \A i \in 1..Len(tpl.layouts) :
            LET phs == tpl.layouts[i].placeholders
                recorded == raw.layouts[i].placeholders
            IN /\ Len(recorded) = Len(phs)
               /\ \A k \in 1..Len(phs) :
                     (phs[k].type = PH_INVALID /\ "left" \in DOMAIN phs[k])
                     => recorded[k] = [kind |-> "", left |-> phs[k].left,
                                       top |-> phs[k].top, width |-> phs[k].width,
                                       height |-> phs[k].height]

\* C23 counterexample: a layout of one placeholder with geometry and an
\* unreadable type was extracted, without abort, as a layout of none.
C23_Counterexample ==
    /\ Extracted
    /\ Len(tpl.layouts[1].placeholders) = 1
    /\ tpl.layouts[1].placeholders[1].type = PH_INVALID
    /\ raw # DefaultRawTemplateData
    /\ raw.layouts[1].placeholders = <<>>

\* every archetype of the manifest in use is one of the schema's five
SchemaArchetypesOnly ==
    \A k \in 1..Len(ManifestLayouts) :
        "archetype" \in DOMAIN ManifestLayouts[k]
        /\ ManifestLayouts[k].archetype \in Archetypes

\* the block with its content on the other side of the threshold: cut to
\* the threshold when longer, padded past it otherwise
OtherLength(block) ==
    LET text == block.content.text
        twin == IF Len(text) > LongContentThreshold
                THEN SubSeq(text, 1, LongContentThreshold)
                ELSE text \o [k \in 1..(LongContentThreshold + 1 - Len(text)) |-> "x"]
    IN [block EXCEPT !.content = StrContent(twin)]

\* C25: under a manifest with schema archetypes only, a block with
\* non-empty text content was resolved to the layout the block differing
\* only by content length on the other side of the threshold resolves to.
C25_ThresholdHasNoEffect ==
    \A i \in 1..Len(deck) :
        (SchemaArchetypesOnly /\ deck[i].src = i - 1
            /\ NonEmptyContent(slide_structure[i])
            /\ ~slide_structure[i].content.is_list)
        => deck[i].resolved =
              ResolveLayoutFromManifest(OtherLength(slide_structure[i]),
                                        manifest, i - 1, tpl.layouts)

\* C25 witness: content above the threshold, a manifest of schema
\* archetypes with a two_content layout and no title_content layout, and
\* the two_content layout, which is not the first, was resolved.
C25_Witness ==
    /\ SchemaArchetypesOnly
    /\ Len(deck) = 1
    /\ Len(slide_structure[1].content.text) > LongContentThreshold
    /\ Len(ManifestLayouts) = 2
    /\ ManifestLayouts[1].archetype = "other"
    /\ ManifestLayouts[2].archetype = "two_content"
    /\ ManifestLayouts[1].name # ManifestLayouts[2].name
    /\ deck[1].resolved = 2

\* C26: under the fallback manifest of the template a slide made from a
\* resolved layout instantiates the document layout at the position of the
\* manifest entry the decision order stopped at.
C26_FallbackNameLookupExact ==
    \A i \in StyledSlides :
        (manifest = CreateFallbackManifest(ExtractRawTemplateData(tpl))
            /\ deck[i].resolved # 0)
        => /\ deck[i].resolved =
                 ChooseLayoutDef(slide_structure[i], manifest.layouts)
           /\ deck[i].layout = deck[i].resolved

\* C26 witness: the fallback manifest of a template whose two layouts
\* share their name, and a slide instantiated from the resolved layout.
C26_Witness ==
    /\ manifest = CreateFallbackManifest(ExtractRawTemplateData(tpl))
    /\ Len(tpl.layouts) = 2
    /\ tpl.layouts[1].name = tpl.layouts[2].name
    /\ \E i \in StyledSlides : deck[i].resolved # 0 /\ deck[i].layout = 1

\* every call of func but the last raised an error the configuration
\* lets retry
EarlierAttemptsRetryable ==
    \A k \in 1..(Len(op.outcomes) - 1) :
        /\ ~op.outcomes[k].ok
        /\ \/ HasRetryableCondition(op.outcomes[k].error)
           \/ IsInstanceOfRetryable(op.outcomes[k].error, op.config)

\* C27 (safety part): func was called at most max_retries + 1 times, every
\* call but the last raised a retryable error, execute returned the result
\* of the last call if that succeeded and otherwise raised the exception of
\* the last call, which was rejected by is_retryable_error or was the call
\* number max_retries + 1.
ExecuteBounded ==
    /\ Len(op.outcomes) <= op.config.max_retries + 1
    /\ EarlierAttemptsRetryable
    /\ op.status = "running" =>
          /\ \A k \in 1..Len(op.outcomes) : ~op.outcomes[k].ok
          /\ Len(op.outcomes) <= op.config.max_retries
    /\ op.status = "returned" =>
          /\ op.outcomes[Len(op.outcomes)].ok
          /\ op.result = op.outcomes[Len(op.outcomes)].value
    /\ op.status = "raised" =>
          /\ ~op.outcomes[Len(op.outcomes)].ok
          /\ op.last_exception = op.outcomes[Len(op.outcomes)].error

\* C27: execute stays within max_retries + 1 calls, stops at the first
\* success with its result, stops at an error that is not retryable,
\* re-raises the exception of the last call, and always ends.
C27_ExecuteBoundedAndTerminates ==
    [](op.status \in {"running", "returned", "raised"} /\ ExecuteBounded)
    /\ <>(op.status \in {"returned", "raised"})

\* C27 witness: with max_retries 2 and ConnectionError alone retryable, a
\* retryable error was followed by a ValueError without retryable phrase,
\* and execute raised that error after two calls.
C27_Witness ==
    /\ op.status = "raised"
    /\ op.config.max_retries = 2
    /\ op.config.retryable_errors = <<"ConnectionError">>
    /\ Len(op.outcomes) = 2
    /\ op.outcomes[1].error.class = "ConnectionResetError"
    /\ op.last_exception.class = "ValueError"
    /\ ~HasRetryableCondition(op.last_exception)

\* C28: once a handler that saved its upload has answered, on the normal
\* path or with an error, the upload folder holds no template file written
\* by that request.
C28_UploadRemovedBeforeAnswer ==
    \A r \in DOMAIN reqs :
        reqs[r].rpc \in {"done", "error 500"}
        => Writer(files, TemplatePath(reqs[r].filename)) # r

\* C28 witness: a request of the single-slide endpoint saved its upload,
\* failed after the save and answered 500 after removing its own file.
C28_Witness ==
    \E r \in DOMAIN reqs :
        /\ reqs[r].rpc = "error 500"
        /\ reqs[r].endpoint = "test-single-slide"
        /\ reqs[r].removed = r
        /\ ~Exists(files, TemplatePath(reqs[r].filename))

\* the wrapper ended a call with the given result in this step
CallEnded(result) == cb'.results = Append(cb.results, result)

\* C29: in every step of a breaker the state is CLOSED, OPEN or HALF_OPEN;
\* while it is OPEN and less than the recovery timeout has passed since the
\* last failure, the function is not invoked, a call is rejected and the
\* state stays OPEN; a failure in HALF_OPEN leads to OPEN; a success in
\* HALF_OPEN leads to CLOSED with failure_count 0.
C29_BreakerTransitions ==
    [][/\ cb.state \in {"CLOSED", "OPEN", "HALF_OPEN"}
       /\ cb'.state \in {"CLOSED", "OPEN", "HALF_OPEN"}
       /\ (cb.wrapper = "idle" /\ cb.state = "OPEN"
             /\ cb.now - cb.last_failure_time < cb.recovery_timeout)
          => /\ cb'.wrapper = "idle"
             /\ cb'.state = "OPEN"
             /\ cb'.results # cb.results => CallEnded("rejected")
       /\ (cb.state = "HALF_OPEN" /\ CallEnded("raised")) => cb'.state = "OPEN"
       /\ (cb.state = "HALF_OPEN" /\ CallEnded("returned"))
          => cb'.state = "CLOSED" /\ cb'.failure_count = 0]_vars

\* C29 witness: with threshold 1 a failure opened the breaker, a call was
\* rejected, a trial call failed and a later trial call succeeded, closing
\* the breaker with failure_count 0.
C29_Witness ==
    /\ cb.state = "CLOSED"
    /\ cb.failure_threshold = 1
    /\ cb.results = <<"raised", "rejected", "raised", "returned">>
    /\ cb.failure_count = 0

\* C30: a success while CLOSED sets failure_count to 0, and the breaker
\* goes from CLOSED to OPEN only when the last failure_threshold calls of
\* the wrapper all failed.
C30_OpensOnConsecutiveFailuresOnly ==
    [][/\ (cb.state = "CLOSED" /\ CallEnded("returned")) => cb'.failure_count = 0
       /\ (cb.state = "CLOSED" /\ cb'.state = "OPEN")
          => /\ Len(cb'.results) >= cb.failure_threshold
             /\ \A k \in 1..Len(cb'.results) :
                   k > Len(cb'.results) - cb.failure_threshold
                   => cb'.results[k] = "raised"]_vars

\* C24: on every styled slide the body shape is not the title shape, and
\* the title shape still holds the title of the block after the body text
\* was written.
C24_BodyShapeNeverTitle ==
    \A i \in StyledSlides :
        LET title == TitleShape(deck[i].shapes)
        IN (title # 0 /\ deck[i].body # 0)
           => /\ deck[i].body # title
              /\ deck[i].shapes[title].text = slide_structure[i].title

\* C24 counterexample: the BODY placeholder found by type is the shape
\* slide.shapes.title returns, and the body text replaced the title.
C24_Counterexample ==
    \E i \in StyledSlides :
        /\ deck[i].body # 0
        /\ deck[i].body = TitleShape(deck[i].shapes)
        /\ deck[i].shapes[deck[i].body].type = PH_BODY
        /\ slide_structure[i].title # <<>>
        /\ deck[i].shapes[deck[i].body].text # slide_structure[i].title

====
